---------------------------- MODULE Spec2Model ----------------------------
(***************************************************************************)
(* Model of RaydiumLiquidityRebalancer (src/main.ts) and of the Liquidity  *)
(* adapter it drives (src/unnamed/part_000).                               *)
(*                                                                         *)
(* Amounts are JavaScript numbers in the source.  Here an amount is an     *)
(* integer count of 1/Resolution of a whole SOL or token, so that 1.0 is   *)
(* Resolution and a 5% drift of a target of 1.0 is one step.  Pool         *)
(* liquidity of the SOL side is carried in lamports, as the adapter        *)
(* returns it.  Arithmetic on amounts is exact: the rounding of IEEE       *)
(* doubles is not modelled.                                                *)
(*                                                                         *)
(* Every await of an adapter call is a suspension point: a call is logged  *)
(* as "pending" when it is issued and completed by a later Return or Throw *)
(* action of the same invocation.                                          *)
(***************************************************************************)
EXTENDS Integers, Sequences, FiniteSets, TLC

(***************************************************************************)
(* Bounds of the model                                                     *)
(***************************************************************************)
Resolution == 20
MaxAmount == 24
MaxMinAmountOut == 2

(***************************************************************************)
(* Program constants                                                       *)
(***************************************************************************)
LAMPORTS_PER_SOL == 1000000000
\* the tolerance 0.1 of checkPositionRange, as the fraction ToleranceNum/ToleranceDen
ToleranceNum == 1
ToleranceDen == 10

Invocations == {1, 2}
Amounts == 0 .. MaxAmount
TargetAmounts == {0, 10, 20}
MinAmountsOut == 0 .. MaxMinAmountOut
AdapterErrors == {"TransactionError", "RpcError"}
PoolIds == {"POOL"}

LamportsPerStep == LAMPORTS_PER_SOL \div Resolution

Abs(x) == IF x < 0 THEN 0 - x ELSE x

VARIABLES
    poolId,              \* this.poolId
    initialSolAmount,    \* this.initialSolAmount
    initialTokenAmount,  \* this.initialTokenAmount
    pc,                  \* per invocation of rebalance(): where it is
    calls,               \* per invocation: the adapter calls it issued, in order
    snapshot,            \* per invocation: currentSolAmount/currentTokenAmount of its range check
    local,               \* per invocation: the locals of rebalance()
    rejected,            \* per invocation: the error its promise rejected with
    failedStage,         \* per invocation: the stage whose adapter call failed (history)
    console              \* per invocation: what it wrote with console.log/console.error

vars == <<poolId, initialSolAmount, initialTokenAmount, pc, calls, snapshot,
          local, rejected, failedStage, console>>

position == <<poolId, initialSolAmount, initialTokenAmount>>

(***************************************************************************)
(* The adapter (Liquidity): what its calls can return                      *)
(***************************************************************************)
PoolInfo(l1, l2) == [liquidity1Amount |-> l1, liquidity2Amount |-> l2]

\* fetchPoolById resolves to null, to an empty array or to an array of one PoolInfo
FetchResults(A) ==
    {[isNull |-> TRUE, pools |-> <<>>], [isNull |-> FALSE, pools |-> <<>>]}
    \cup {[isNull |-> FALSE, pools |-> <<PoolInfo(s * LamportsPerStep, t)>>] : s \in A, t \in A}

Call(op, direction, amount1, amount2) ==
    [op |-> op, status |-> "pending", direction |-> direction,
     amount1 |-> amount1, amount2 |-> amount2]

\* the pending call at the end of a log completes with status st
Complete(log, st) == [log EXCEPT ![Len(log)].status = st]

(***************************************************************************)
(* checkPositionRange: lines 65-79                                         *)
(***************************************************************************)
\* !poolInfo || poolInfo.length === 0
PoolNotFound(poolInfo) == poolInfo.isNull \/ Len(poolInfo.pools) = 0

\* pool.liquidity1Amount / LAMPORTS_PER_SOL, in steps of 1/Resolution SOL
currentSolAmount(pool) == pool.liquidity1Amount \div LamportsPerStep

\* pool.liquidity2Amount, taken as it is
currentTokenAmount(pool) == pool.liquidity2Amount

\* Math.abs(current - initial) / initial <= 0.1.  Division by an initial amount
\* of 0 yields Infinity (or NaN for 0/0), and neither is <= 0.1.
\* mutant: < instead of <=
WithinToleranceStrict(current, initial) ==
    IF initial = 0
    THEN FALSE
    ELSE ToleranceDen * Abs(current - initial) < ToleranceNum * initial

WithinTolerance(current, initial) ==
    IF initial = 0
    THEN FALSE
    ELSE ToleranceDen * Abs(current - initial) <= ToleranceNum * initial

\* mutant: each side is compared with the other side's initial amount
checkPositionRangeCrossed(pool, initSol, initToken) ==
    /\ WithinTolerance(currentSolAmount(pool), initToken)
    /\ WithinTolerance(currentTokenAmount(pool), initSol)

checkPositionRange(pool, initSol, initToken) ==
    /\ WithinTolerance(currentSolAmount(pool), initSol)
    /\ WithinTolerance(currentTokenAmount(pool), initToken)

(***************************************************************************)
(* removeLiquidity: the amounts it reports, lines 101-104                  *)
(***************************************************************************)
\* mutant: the two amounts are reported the wrong way round
RemovedAmountsCrossed(initSol, initToken) == [solAmount |-> initToken, tokenAmount |-> initSol]

RemovedAmounts(initSol, initToken) == [solAmount |-> initSol, tokenAmount |-> initToken]

(***************************************************************************)
(* The rebalancing strategy of rebalance(): lines 185-205                  *)
(***************************************************************************)
\* mutant: >= instead of >
SwapDirectionOrEqual(solAmount, targetSolAmount) ==
    IF solAmount >= targetSolAmount THEN "solToToken" ELSE "tokenToSol"

SwapDirection(solAmount, targetSolAmount) ==
    IF solAmount > targetSolAmount THEN "solToToken" ELSE "tokenToSol"

SwapAmount(solAmount, tokenAmount, targetSolAmount, targetTokenAmount) ==
    IF solAmount > targetSolAmount
    THEN solAmount - targetSolAmount
    ELSE tokenAmount - targetTokenAmount

\* mutant: the output of the swap is left out of the deposit
DepositAmountsWithoutReceived(direction, solAmount, tokenAmount, targetSolAmount, targetTokenAmount, received) ==
    IF direction = "solToToken"
    THEN <<targetSolAmount, tokenAmount>>
    ELSE <<solAmount, targetTokenAmount>>

\* the (solAmount, tokenAmount) arguments of addLiquidity
DepositAmounts(direction, solAmount, tokenAmount, targetSolAmount, targetTokenAmount, received) ==
    IF direction = "solToToken"
    THEN <<targetSolAmount, received + tokenAmount>>
    ELSE <<received + solAmount, targetTokenAmount>>

NoSnapshot == [fetched |-> "none", sol |-> 0, token |-> 0]
NoLocal == [isInRange |-> FALSE, solAmount |-> 0, tokenAmount |-> 0,
            swapAmount |-> 0, direction |-> "", received |-> 0]

(***************************************************************************)
(* Initial state: a constructed and initialized rebalancer, no invocation  *)
(* of rebalance() started.  The constructor accepts any two numbers.       *)
(***************************************************************************)
Init ==
    /\ poolId \in PoolIds
    /\ initialSolAmount \in TargetAmounts
    /\ initialTokenAmount \in TargetAmounts
    /\ pc = [p \in Invocations |-> "Idle"]
    /\ calls = [p \in Invocations |-> <<>>]
    /\ snapshot = [p \in Invocations |-> NoSnapshot]
    /\ local = [p \in Invocations |-> NoLocal]
    /\ rejected = [p \in Invocations |-> "none"]
    /\ failedStage = [p \in Invocations |-> "none"]
    /\ console = [p \in Invocations |-> <<>>]

(***************************************************************************)
(* rebalance(), one action per resumption                                  *)
(***************************************************************************)
\* mutant: rebalance() takes a lock and starts only when no other invocation is in flight
InvokeSerialized(p) ==
    /\ pc[p] = "Idle"
    /\ \A q \in Invocations \ {p} : pc[q] \in {"Idle", "Done", "Failed"}
    /\ pc' = [pc EXCEPT ![p] = "CheckingRange"]
    /\ calls' = [calls EXCEPT ![p] = Append(@, Call("fetchPoolById", "", 0, 0))]
    /\ UNCHANGED <<position, snapshot, local, rejected, failedStage, console>>

\* rebalance() is called: it runs up to the await of fetchPoolById
Invoke(p) ==
    /\ pc[p] = "Idle"
    /\ pc' = [pc EXCEPT ![p] = "CheckingRange"]
    /\ calls' = [calls EXCEPT ![p] = Append(@, Call("fetchPoolById", "", 0, 0))]
    /\ UNCHANGED <<position, snapshot, local, rejected, failedStage, console>>

\* the promise of rebalance() rejects with error e, raised at the given stage
Reject(p, stage, e, logged) ==
    /\ pc' = [pc EXCEPT ![p] = "Failed"]
    /\ rejected' = [rejected EXCEPT ![p] = e]
    /\ failedStage' = [failedStage EXCEPT ![p] = stage]
    /\ console' = [console EXCEPT ![p] = @ \o logged]

\* what the adapter answered, kept for the record of the invocation
Observed(poolInfo) ==
    IF poolInfo.isNull \/ Len(poolInfo.pools) = 0
    THEN [fetched |-> "nodata", sol |-> 0, token |-> 0]
    ELSE [fetched |-> "pool", sol |-> currentSolAmount(poolInfo.pools[1]),
          token |-> currentTokenAmount(poolInfo.pools[1])]

\* line 66: throw new Error('Pool not found')
ThrowPoolNotFound(p) ==
    /\ Reject(p, "range-check", "Pool not found", <<>>)
    /\ calls' = [calls EXCEPT ![p] = Complete(@, "ok")]
    /\ UNCHANGED local

\* mutant: the result of the range check is kept in a field of the rebalancer
\* and reused by later invocations
CheckedPoolCached(p, pool) ==
    LET earlier == {q \in Invocations : q # p /\ snapshot[q].fetched = "pool"}
        inRange == IF earlier = {}
                   THEN checkPositionRange(pool, initialSolAmount, initialTokenAmount)
                   ELSE \A q \in earlier : local[q].isInRange
    IN  /\ local' = [local EXCEPT ![p].isInRange = inRange]
        /\ IF inRange
           THEN /\ pc' = [pc EXCEPT ![p] = "Done"]
                /\ calls' = [calls EXCEPT ![p] = Complete(@, "ok")]
                /\ console' = [console EXCEPT ![p] =
                       Append(@, "Position is within range. No rebalancing needed.")]
           ELSE /\ pc' = [pc EXCEPT ![p] = "Withdrawing"]
                /\ calls' = [calls EXCEPT ![p] =
                       Append(Complete(@, "ok"), Call("removeLiquidity", "", 0, 0))]
                /\ UNCHANGED console
        /\ UNCHANGED <<rejected, failedStage>>

\* lines 69-79 and 171-178: the range check on the pool, then return (in range)
\* or go on to the await inside removeLiquidity
CheckedPool(p, pool) ==
    LET inRange == checkPositionRange(pool, initialSolAmount, initialTokenAmount)
    IN  /\ local' = [local EXCEPT ![p].isInRange = inRange]
        /\ IF inRange
           THEN /\ pc' = [pc EXCEPT ![p] = "Done"]
                /\ calls' = [calls EXCEPT ![p] = Complete(@, "ok")]
                /\ console' = [console EXCEPT ![p] =
                       Append(@, "Position is within range. No rebalancing needed.")]
           ELSE /\ pc' = [pc EXCEPT ![p] = "Withdrawing"]
                /\ calls' = [calls EXCEPT ![p] =
                       Append(Complete(@, "ok"), Call("removeLiquidity", "", 0, 0))]
                /\ UNCHANGED console
        /\ UNCHANGED <<rejected, failedStage>>

\* mutant: no check for a missing pool, whose amounts then read as 0
FetchPoolReturnUnchecked(p, poolInfo) ==
    /\ pc[p] = "CheckingRange"
    /\ snapshot' = [snapshot EXCEPT ![p] = Observed(poolInfo)]
    /\ CheckedPool(p, IF PoolNotFound(poolInfo) THEN PoolInfo(0, 0) ELSE poolInfo.pools[1])
    /\ UNCHANGED position

\* fetchPoolById resolves: the rest of checkPositionRange, then rebalance()
FetchPoolReturn(p, poolInfo) ==
    /\ pc[p] = "CheckingRange"
    /\ snapshot' = [snapshot EXCEPT ![p] = Observed(poolInfo)]
    /\ IF PoolNotFound(poolInfo)
       THEN ThrowPoolNotFound(p)
       ELSE CheckedPool(p, poolInfo.pools[1])
    /\ UNCHANGED position

\* fetchPoolById rejects: nothing catches it
FetchPoolThrow(p, e) ==
    /\ pc[p] = "CheckingRange"
    /\ calls' = [calls EXCEPT ![p] = Complete(@, "failed")]
    /\ Reject(p, "range-check", e, <<>>)
    /\ UNCHANGED <<position, snapshot, local>>

\* lines 180-198 on the amounts removeLiquidity reported: the strategy, then
\* swapTokens up to its await
StrategyStep(p, removed) ==
    LET direction == SwapDirection(removed.solAmount, initialSolAmount)
        swapAmount == SwapAmount(removed.solAmount, removed.tokenAmount,
                                 initialSolAmount, initialTokenAmount)
    IN  /\ pc' = [pc EXCEPT ![p] = "Swapping"]
        /\ local' = [local EXCEPT ![p].solAmount = removed.solAmount,
                                  ![p].tokenAmount = removed.tokenAmount,
                                  ![p].swapAmount = swapAmount,
                                  ![p].direction = direction]
        /\ calls' = [calls EXCEPT ![p] =
               Append(Complete(@, "ok"), Call("swap", direction, swapAmount, 0))]

\* the withdraw transaction is confirmed
RemoveLiquidityReturn(p) ==
    /\ pc[p] = "Withdrawing"
    /\ StrategyStep(p, RemovedAmounts(initialSolAmount, initialTokenAmount))
    /\ UNCHANGED <<position, snapshot, rejected, failedStage, console>>

\* the withdraw fails: logged and rethrown (lines 105-108)
RemoveLiquidityThrow(p, e) ==
    /\ pc[p] = "Withdrawing"
    /\ calls' = [calls EXCEPT ![p] = Complete(@, "failed")]
    /\ Reject(p, "withdraw", e, <<"Error removing liquidity:">>)
    /\ UNCHANGED <<position, snapshot, local>>

\* mutant: addLiquidity is called without await, so rebalance() returns at once
SwapReturnNoAwait(p, minAmountOut) ==
    /\ pc[p] = "Swapping"
    /\ LET l == local[p]
           deposit == DepositAmounts(l.direction, l.solAmount, l.tokenAmount,
                                     initialSolAmount, initialTokenAmount, minAmountOut)
       IN  /\ local' = [local EXCEPT ![p].received = minAmountOut]
           /\ calls' = [calls EXCEPT ![p] =
                  Append(Complete(@, "ok"), Call("addLiquidity", "", deposit[1], deposit[2]))]
    /\ pc' = [pc EXCEPT ![p] = "Done"]
    /\ console' = [console EXCEPT ![p] = Append(@, "Liquidity rebalanced successfully")]
    /\ UNCHANGED <<position, snapshot, rejected, failedStage>>

\* the swap is confirmed with minAmountOut: addLiquidity up to its await
SwapReturn(p, minAmountOut) ==
    /\ pc[p] = "Swapping"
    /\ LET l == local[p]
           deposit == DepositAmounts(l.direction, l.solAmount, l.tokenAmount,
                                     initialSolAmount, initialTokenAmount, minAmountOut)
       IN  /\ local' = [local EXCEPT ![p].received = minAmountOut]
           /\ calls' = [calls EXCEPT ![p] =
                  Append(Complete(@, "ok"), Call("addLiquidity", "", deposit[1], deposit[2]))]
    /\ pc' = [pc EXCEPT ![p] = "Depositing"]
    /\ UNCHANGED <<position, snapshot, rejected, failedStage, console>>

\* mutant: the catch of swapTokens submits the swap once more before giving up
SwapThrowRetried(p, e) ==
    /\ pc[p] = "Swapping"
    /\ IF Len(calls[p]) = 3
       THEN /\ calls' = [calls EXCEPT ![p] =
                   Append(Complete(@, "failed"),
                          Call("swap", local[p].direction, local[p].swapAmount, 0))]
            /\ console' = [console EXCEPT ![p] = Append(@, "Error swapping tokens:")]
            /\ UNCHANGED <<pc, rejected, failedStage>>
       ELSE /\ calls' = [calls EXCEPT ![p] = Complete(@, "failed")]
            /\ Reject(p, "swap", e, <<"Error swapping tokens:">>)
    /\ UNCHANGED <<position, snapshot, local>>

\* mutant: the catch of swapTokens logs the error and returns 0 instead of rethrowing
SwapThrowSwallowed(p, e) ==
    /\ pc[p] = "Swapping"
    /\ LET l == local[p]
           deposit == DepositAmounts(l.direction, l.solAmount, l.tokenAmount,
                                     initialSolAmount, initialTokenAmount, 0)
       IN  calls' = [calls EXCEPT ![p] =
               Append(Complete(@, "failed"), Call("addLiquidity", "", deposit[1], deposit[2]))]
    /\ pc' = [pc EXCEPT ![p] = "Depositing"]
    /\ console' = [console EXCEPT ![p] = Append(@, "Error swapping tokens:")]
    /\ UNCHANGED <<position, snapshot, local, rejected, failedStage>>

\* the swap fails: logged and rethrown (lines 139-142)
SwapThrow(p, e) ==
    /\ pc[p] = "Swapping"
    /\ calls' = [calls EXCEPT ![p] = Complete(@, "failed")]
    /\ Reject(p, "swap", e, <<"Error swapping tokens:">>)
    /\ UNCHANGED <<position, snapshot, local>>

\* mutant: after the deposit the rebalancer takes the deposited amounts as its new targets
AddLiquidityReturnRetargets(p) ==
    /\ pc[p] = "Depositing"
    /\ pc' = [pc EXCEPT ![p] = "Done"]
    /\ calls' = [calls EXCEPT ![p] = Complete(@, "ok")]
    /\ console' = [console EXCEPT ![p] = Append(@, "Liquidity rebalanced successfully")]
    /\ initialSolAmount' = calls[p][Len(calls[p])].amount1
    /\ initialTokenAmount' = calls[p][Len(calls[p])].amount2
    /\ UNCHANGED <<poolId, snapshot, local, rejected, failedStage>>

\* the deposit is confirmed: rebalance() returns
AddLiquidityReturn(p) ==
    /\ pc[p] = "Depositing"
    /\ pc' = [pc EXCEPT ![p] = "Done"]
    /\ calls' = [calls EXCEPT ![p] = Complete(@, "ok")]
    /\ console' = [console EXCEPT ![p] = Append(@, "Liquidity rebalanced successfully")]
    /\ UNCHANGED <<position, snapshot, local, rejected, failedStage>>

\* mutant: the catch of addLiquidity logs the error and then awaits a
\* confirmation that never comes
AddLiquidityThrowHangs(p, e) ==
    /\ pc[p] = "Depositing"
    /\ calls' = [calls EXCEPT ![p] = Complete(@, "failed")]
    /\ pc' = [pc EXCEPT ![p] = "Hung"]
    /\ console' = [console EXCEPT ![p] = Append(@, "Error adding liquidity:")]
    /\ UNCHANGED <<position, snapshot, local, rejected, failedStage>>

\* the deposit fails: logged and rethrown (lines 163-166)
AddLiquidityThrow(p, e) ==
    /\ pc[p] = "Depositing"
    /\ calls' = [calls EXCEPT ![p] = Complete(@, "failed")]
    /\ Reject(p, "deposit", e, <<"Error adding liquidity:">>)
    /\ UNCHANGED <<position, snapshot, local>>

\* an awaited adapter call of invocation p completes, the adapter answering
\* from amounts A, and rebalance() runs on to its next await or to its end
Resume(p, A) ==
    \/ \E poolInfo \in FetchResults(A) : FetchPoolReturn(p, poolInfo)
    \/ \E e \in AdapterErrors : FetchPoolThrow(p, e)
    \/ RemoveLiquidityReturn(p)
    \/ \E e \in AdapterErrors : RemoveLiquidityThrow(p, e)
    \/ \E m \in MinAmountsOut : SwapReturn(p, m)
    \/ \E e \in AdapterErrors : SwapThrow(p, e)
    \/ AddLiquidityReturn(p)
    \/ \E e \in AdapterErrors : AddLiquidityThrow(p, e)

\* one step of invocation p
Step(p, A) == Invoke(p) \/ Resume(p, A)

(***************************************************************************)
(* Spec: main() of src/main.ts, a single invocation of rebalance()         *)
(***************************************************************************)
Next == Step(1, Amounts)

Spec == Init /\ [][Next]_vars

(***************************************************************************)
(* SpecSuccessive: a caller that awaits rebalance() and then calls it      *)
(* again on the same rebalancer; the adapter answers from RepeatAmounts    *)
(***************************************************************************)
RepeatAmounts == {10, 20, 24}

Ended(p) == pc[p] \in {"Done", "Failed"}

NextSuccessive ==
    \/ Step(1, RepeatAmounts)
    \/ Ended(1) /\ Step(2, RepeatAmounts)

SpecSuccessive == Init /\ [][NextSuccessive]_vars

(***************************************************************************)
(* SpecFair: successive invocations with every awaited adapter call        *)
(* eventually returning or failing, after which the event loop runs the    *)
(* continuation; the adapter answers from FairAmounts                      *)
(***************************************************************************)
FairAmounts == {20, 24}

NextFair ==
    \/ Step(1, FairAmounts)
    \/ Ended(1) /\ Step(2, FairAmounts)

SpecFair ==
    /\ Init
    /\ [][NextFair]_vars
    /\ \A p \in Invocations : WF_vars(Resume(p, FairAmounts))

(***************************************************************************)
(* SpecConcurrent: a caller that calls rebalance() a second time without   *)
(* awaiting the first; the two invocations interleave at their awaits      *)
(***************************************************************************)
NextConcurrent == \E p \in Invocations : Step(p, RepeatAmounts)

SpecConcurrent == Init /\ [][NextConcurrent]_vars

(***************************************************************************)
(* SpecStrategy: the strategy of rebalance() (lines 180-205) as a function *)
(* of the amounts a withdraw reports.  An invocation stands at the await   *)
(* of its withdraw, the position has positive targets, and the withdraw    *)
(* reports any two amounts.                                                *)
(***************************************************************************)
InitStrategy ==
    /\ poolId \in PoolIds
    /\ initialSolAmount \in TargetAmounts \ {0}
    /\ initialTokenAmount \in TargetAmounts \ {0}
    /\ \E s \in RepeatAmounts, t \in RepeatAmounts :
          /\ ~checkPositionRange(PoolInfo(s * LamportsPerStep, t),
                                 initialSolAmount, initialTokenAmount)
          /\ snapshot = [p \in Invocations |->
                 IF p = 1 THEN [fetched |-> "pool", sol |-> s, token |-> t] ELSE NoSnapshot]
    /\ pc = [p \in Invocations |-> IF p = 1 THEN "Withdrawing" ELSE "Idle"]
    /\ calls = [p \in Invocations |->
          IF p = 1
          THEN <<Complete(<<Call("fetchPoolById", "", 0, 0)>>, "ok")[1],
                 Call("removeLiquidity", "", 0, 0)>>
          ELSE <<>>]
    /\ local = [p \in Invocations |-> NoLocal]
    /\ rejected = [p \in Invocations |-> "none"]
    /\ failedStage = [p \in Invocations |-> "none"]
    /\ console = [p \in Invocations |-> <<>>]

\* the withdraw reports the amounts (s, t)
WithdrawReports(p, s, t) ==
    /\ pc[p] = "Withdrawing"
    /\ StrategyStep(p, [solAmount |-> s, tokenAmount |-> t])
    /\ UNCHANGED <<position, snapshot, rejected, failedStage, console>>

NextStrategy ==
    \/ \E s \in Amounts, t \in Amounts : WithdrawReports(1, s, t)
    \/ \E m \in MinAmountsOut : SwapReturn(1, m)
    \/ \E e \in AdapterErrors : SwapThrow(1, e)
    \/ AddLiquidityReturn(1)
    \/ \E e \in AdapterErrors : AddLiquidityThrow(1, e)

SpecStrategy == InitStrategy /\ [][NextStrategy]_vars

(***************************************************************************)
(* Vocabulary of the properties                                            *)
(***************************************************************************)
Transactions == {"removeLiquidity", "swap", "addLiquidity"}

\* the positions in the call log of invocation p of the calls of an operation
CallsOf(p, op) == {i \in DOMAIN calls[p] : calls[p][i].op = op}

NoTransaction(p) == \A i \in DOMAIN calls[p] : calls[p][i].op \notin Transactions

\* a drift of at most 10% of a positive target: 0.9 target <= current <= 1.1 target
DriftWithinTenth(current, target) ==
    /\ target > 0
    /\ 9 * target <= 10 * current
    /\ 10 * current <= 11 * target

SnapshotInRange(p) ==
    /\ snapshot[p].fetched = "pool"
    /\ DriftWithinTenth(snapshot[p].sol, initialSolAmount)
    /\ DriftWithinTenth(snapshot[p].token, initialTokenAmount)

\* C1: an invocation whose fetched pool amounts are within tolerance of both
\* targets has ended in Done, without error, and has submitted no withdraw, no
\* swap and no deposit.
C1_InRangeIsNoOp ==
    \A p \in Invocations :
        SnapshotInRange(p) =>
            /\ pc[p] = "Done"
            /\ rejected[p] = "none"
            /\ NoTransaction(p)

\* an invocation that found a drifted but in-range snapshot and returned
C1_Witness ==
    \E p \in Invocations :
        /\ pc[p] = "Done"
        /\ snapshot[p].fetched = "pool"
        /\ initialSolAmount = 20 /\ snapshot[p].sol = 21
        /\ initialTokenAmount = 20 /\ snapshot[p].token = 19
        /\ Len(calls[p]) = 1

\* C2: a failed withdraw, swap or deposit is the last call of its invocation,
\* and the invocation has ended in Failed.
C2_FailureStopsTheRun ==
    \A p \in Invocations :
        \A i \in DOMAIN calls[p] :
            (calls[p][i].op \in Transactions /\ calls[p][i].status = "failed") =>
                /\ pc[p] = "Failed"
                /\ rejected[p] # "none"
                /\ i = Len(calls[p])

\* a swap failed after the withdraw succeeded, and no deposit was called
C2_Witness ==
    \E p \in Invocations :
        /\ pc[p] = "Failed"
        /\ Len(calls[p]) = 3
        /\ calls[p][2].op = "removeLiquidity" /\ calls[p][2].status = "ok"
        /\ calls[p][3].op = "swap" /\ calls[p][3].status = "failed"
        /\ CallsOf(p, "addLiquidity") = {}

\* C3: when the pool query returned no data, the invocation has failed with
\* the pool-not-found error and has called no withdraw, swap or deposit.
C3_PoolNotFoundFails ==
    \A p \in Invocations :
        snapshot[p].fetched = "nodata" =>
            /\ pc[p] = "Failed"
            /\ rejected[p] = "Pool not found"
            /\ NoTransaction(p)

\* the pool query returned no data and the invocation failed
C3_Witness ==
    \E p \in Invocations :
        /\ snapshot[p].fetched = "nodata"
        /\ pc[p] = "Failed"
        /\ rejected[p] = "Pool not found"
        /\ Len(calls[p]) = 1

\* C4: the error a failed invocation surfaces to its caller identifies the
\* stage that failed: two failed invocations that surface the same error
\* failed at the same stage.
C4_ErrorIdentifiesStage ==
    \A p, q \in Invocations :
        (pc[p] = "Failed" /\ pc[q] = "Failed" /\ rejected[p] = rejected[q]) =>
            failedStage[p] = failedStage[q]

Sequence == <<"fetchPoolById", "removeLiquidity", "swap", "addLiquidity">>

\* C5: the calls of an invocation are a prefix of query, withdraw, swap,
\* deposit; a call is issued only when every earlier one has completed
\* successfully; and an invocation that found the position out of range is
\* Done only with all four calls completed successfully.
C5_StrictSequence ==
    \A p \in Invocations :
        /\ Len(calls[p]) <= Len(Sequence)
        /\ \A i \in DOMAIN calls[p] :
              /\ calls[p][i].op = Sequence[i]
              /\ i < Len(calls[p]) => calls[p][i].status = "ok"
        /\ (pc[p] = "Done" /\ ~SnapshotInRange(p)) =>
              /\ Len(calls[p]) = Len(Sequence)
              /\ calls[p][Len(Sequence)].status = "ok"

\* a rebalance that ran all four calls and ended in Done
C5_Witness ==
    \E p \in Invocations :
        /\ pc[p] = "Done"
        /\ snapshot[p].fetched = "pool"
        /\ ~local[p].isInRange
        /\ Len(calls[p]) = 4
        /\ calls[p][4].op = "addLiquidity" /\ calls[p][4].status = "ok"

PositiveTargets == initialSolAmount > 0 /\ initialTokenAmount > 0

\* C6: in an invocation whose snapshot is out of range with the SOL amount
\* above the SOL target, the range check is false and the swap submitted is
\* solToToken with input amount snapshot SOL minus target SOL.
C6_SwapFollowsSnapshot ==
    \A p \in Invocations :
        (/\ PositiveTargets
         /\ snapshot[p].fetched = "pool"
         /\ ~SnapshotInRange(p)
         /\ snapshot[p].sol > initialSolAmount) =>
            /\ ~local[p].isInRange
            /\ \A i \in CallsOf(p, "swap") :
                  /\ calls[p][i].direction = "solToToken"
                  /\ calls[p][i].amount1 = snapshot[p].sol - initialSolAmount

SolSurplus(p) == local[p].solAmount - initialSolAmount
TokenSurplus(p) == local[p].tokenAmount - initialTokenAmount

\* the asset the submitted swap takes as input has a surplus at least as large
\* as the other asset's
SourceHasLargerSurplus(p) ==
    \A i \in CallsOf(p, "swap") :
        IF calls[p][i].direction = "solToToken"
        THEN SolSurplus(p) >= TokenSurplus(p)
        ELSE TokenSurplus(p) >= SolSurplus(p)

C9_ZeroTargetFailsFast ==
    \A p \in Invocations :
        (initialSolAmount = 0 \/ initialTokenAmount = 0) =>
            /\ calls[p] = <<>>
            /\ pc[p] # "Idle" => (pc[p] = "Failed" /\ rejected[p] = "ConfigurationError")

C11_SecondRunOnTargetIsNoOp ==
    (/\ PositiveTargets
     /\ Ended(1)
     /\ snapshot[2].fetched = "pool"
     /\ snapshot[2].sol = initialSolAmount
     /\ snapshot[2].token = initialTokenAmount) =>
        /\ pc[2] = "Done"
        /\ rejected[2] = "none"
        /\ NoTransaction(2)

\* the first invocation failed at its deposit, the second found the pool on target
C11_Witness ==
    /\ pc[1] = "Failed" /\ failedStage[1] = "deposit"
    /\ snapshot[2].fetched = "pool"
    /\ initialSolAmount = 20 /\ snapshot[2].sol = 20
    /\ initialTokenAmount = 10 /\ snapshot[2].token = 10
    /\ pc[2] = "Done"
    /\ Len(calls[2]) = 1

\* C12: on withdrawn amounts (sol, token): if sol is above its target the swap
\* is solToToken with input sol - target sol and the deposit is (target sol,
\* token + swap output); otherwise the swap is tokenToSol with input token -
\* target token and the deposit is (sol + swap output, target token).
C12_StrategyRule ==
    \A p \in Invocations :
        LET l == local[p] IN
        /\ \A i \in CallsOf(p, "swap") :
              IF l.solAmount > initialSolAmount
              THEN /\ calls[p][i].direction = "solToToken"
                   /\ calls[p][i].amount1 = l.solAmount - initialSolAmount
              ELSE /\ calls[p][i].direction = "tokenToSol"
                   /\ calls[p][i].amount1 = l.tokenAmount - initialTokenAmount
        /\ \A i \in CallsOf(p, "addLiquidity") :
              IF l.solAmount > initialSolAmount
              THEN /\ calls[p][i].amount1 = initialSolAmount
                   /\ calls[p][i].amount2 = l.tokenAmount + l.received
              ELSE /\ calls[p][i].amount1 = l.solAmount + l.received
                   /\ calls[p][i].amount2 = initialTokenAmount

\* a deposit after a solToToken swap with a positive output
C12_Witness ==
    \E p \in Invocations :
        /\ local[p].solAmount = 24 /\ initialSolAmount = 20
        /\ local[p].tokenAmount = 16 /\ local[p].received = 2
        /\ \E i \in CallsOf(p, "addLiquidity") :
              calls[p][i].amount1 = 20 /\ calls[p][i].amount2 = 18

\* C13: an invocation calls each of withdraw, swap and deposit at most once;
\* an invocation that failed at its swap or deposit made no call after the
\* failed one, its withdraw was confirmed and no deposit of it was confirmed.
C13_NoRetryNoRollback ==
    \A p \in Invocations :
        /\ \A op \in Transactions : Cardinality(CallsOf(p, op)) <= 1
        /\ failedStage[p] \in {"swap", "deposit"} =>
              /\ pc[p] = "Failed"
              /\ calls[p][Len(calls[p])].status = "failed"
              /\ \A i \in CallsOf(p, "removeLiquidity") : calls[p][i].status = "ok"
              /\ CallsOf(p, "removeLiquidity") # {}
              /\ \A i \in CallsOf(p, "addLiquidity") : calls[p][i].status # "ok"

\* a deposit failed after a confirmed withdraw and swap: the run ended there
C13_Witness ==
    \E p \in Invocations :
        /\ pc[p] = "Failed" /\ failedStage[p] = "deposit"
        /\ Len(calls[p]) = 4
        /\ calls[p][2].status = "ok" /\ calls[p][3].status = "ok"
        /\ calls[p][4].op = "addLiquidity" /\ calls[p][4].status = "failed"

C15_NotSerialized ==
    \A p \in Invocations :
        /\ pc[p] = "Idle" => ENABLED Invoke(p)
        /\ pc[p] = "Withdrawing" => ENABLED RemoveLiquidityReturn(p)

\* both invocations found the position out of range, both withdrew and
\* swapped, and the deposits of both are pending at the same time
C15_Witness ==
    /\ \A p \in Invocations :
          /\ pc[p] = "Depositing"
          /\ snapshot[p].fetched = "pool" /\ ~local[p].isInRange
          /\ Len(calls[p]) = 4
          /\ calls[p][2].op = "removeLiquidity" /\ calls[p][2].status = "ok"
          /\ calls[p][3].op = "swap" /\ calls[p][3].status = "ok"
          /\ calls[p][4].op = "addLiquidity" /\ calls[p][4].status = "pending"

\* C16: no step of rebalance() changes the position configuration (pool
\* identifier, target SOL amount, target token amount).
C16_PositionIsReadOnly == [][position' = position]_vars

\* two successive invocations have ended, one after a full rebalance and one
\* in failure after its withdraw
C16_Witness ==
    /\ pc[1] = "Done" /\ Len(calls[1]) = 4
    /\ pc[2] = "Failed" /\ failedStage[2] = "swap"
    /\ initialSolAmount = 20 /\ initialTokenAmount = 10

\* C17: a confirmed withdraw reports the targets as the withdrawn amounts
\* whatever the snapshot was, so every swap submitted is tokenToSol with input
\* amount 0 and every deposit is (target SOL + swap output, target token).
C17_AlwaysTokenToSolOfNothing ==
    \A p \in Invocations :
        /\ \A i \in CallsOf(p, "swap") :
              /\ local[p].solAmount = initialSolAmount
              /\ local[p].tokenAmount = initialTokenAmount
              /\ calls[p][i].direction = "tokenToSol"
              /\ calls[p][i].amount1 = 0
        /\ \A i \in CallsOf(p, "addLiquidity") :
              /\ calls[p][i].amount1 = initialSolAmount + local[p].received
              /\ calls[p][i].amount2 = initialTokenAmount

\* the snapshot had SOL above and the token below target, and still the swap
\* was tokenToSol of 0 and the deposit (target SOL + output, target token)
C17_Witness ==
    \E p \in Invocations :
        /\ initialSolAmount = 20 /\ snapshot[p].sol = 24
        /\ initialTokenAmount = 20 /\ snapshot[p].token = 16
        /\ Len(calls[p]) = 4
        /\ calls[p][3].direction = "tokenToSol" /\ calls[p][3].amount1 = 0
        /\ calls[p][4].amount1 = 22 /\ calls[p][4].amount2 = 20

\* C18: when every adapter call eventually returns or fails, every started
\* invocation eventually is Done or Failed, and an invocation that is Done or
\* Failed stays so.
C18_TerminatesAndStays ==
    /\ \A p \in Invocations : [](pc[p] # "Idle" => <>Ended(p))
    /\ [][\A p \in Invocations : Ended(p) => pc'[p] = pc[p]]_vars

\* an invocation went through all four calls and ended
C18_Witness ==
    \E p \in Invocations :
        /\ Ended(p)
        /\ Len(calls[p]) = 4
        /\ calls[p][4].status \in {"ok", "failed"}

=============================================================================
